---- MODULE Spec2Model ----
(***************************************************************************)
(* A model of caesar/group.py: the per-structure processing pipeline of    *)
(* Group/Halo/Galaxy (_process_group, _unbind, the derived quantities,     *)
(* _cleanup) and the lazy membership lists (GroupList); and of            *)
(* caesar/driver.py: drive over the snapshots and the ranks.               *)
(*                                                                         *)
(* Python indices are 0-based and TLA+ sequences are 1-based: a local or   *)
(* table index i of the code is kept as the number i, and row i of a       *)
(* sequence s is read as s[i + 1].                                         *)
(*                                                                         *)
(* Floating point is modelled by exact rational arithmetic: a centre of    *)
(* mass is a pair (numerators, denominator) and the sign of a particle's   *)
(* energy is decided exactly (EnergyPositive).                             *)
(***************************************************************************)
EXTENDS Integers, Sequences, FiniteSets, TLC

(***************************************************************************)
(* Policy constants, group.py lines 8-11.                                  *)
(***************************************************************************)
UNBIND_HALOS == TRUE

\* mutant: unbinding switched on for galaxies
UNBIND_GALAXIES_on == TRUE

UNBIND_GALAXIES == FALSE

MINIMUM_STARS_PER_GALAXY == 32

MINIMUM_DM_PER_HALO == 32

(***************************************************************************)
(* Species tags.  ptype_ints is imported from property_getter; the code    *)
(* uses its keys gas, star and dm.  PTYPE_BH is the tag of a species that  *)
(* none of those keys names (black holes, PartType5 of the driver's        *)
(* documentation).                                                         *)
(***************************************************************************)
ptype_ints == [gas |-> 0, dm |-> 1, star |-> 4]

PTYPE_BH == 5

(***************************************************************************)
(* Units and the gravitational constant.  x.to(unit).d scales x by a       *)
(* positive factor: LENGTH_IN_KPC, VELOCITY_IN_KPC_S and MASS_IN_MSUN are  *)
(* the factors of obj.units['length'] -> kpc, obj.units['velocity'] ->     *)
(* kpc/s and obj.units['mass'] -> Msun (Msun is the default mass unit).    *)
(* obj.simulation.G.d is the rational G_NUM / G_DEN.                       *)
(***************************************************************************)
LENGTH_IN_KPC == 2

VELOCITY_IN_KPC_S == 3

MASS_IN_MSUN == 1

G_NUM == 3

G_DEN == 5

(***************************************************************************)
(* Bounds of the model.                                                    *)
(*   MaxExtras     how many of the extra particles a candidate group may   *)
(*                 hold besides its bulk;                                  *)
(*   MaxBulkShort  a candidate's bulk holds MINIMUM - s particles of the   *)
(*                 defining species, for s in 1..MaxBulkShort;             *)
(*   MaxRestores   a cap on the restore calls per list.                    *)
(***************************************************************************)
MaxExtras == 4

MaxBulkShort == 2

MaxRestores == 2

NoEntry == 0 - 1

(***************************************************************************)
(* The particle data table handed to _process_group (pdata): parallel      *)
(* columns ptype, mass, pos, vel, indexes over the rows of the snapshot.   *)
(* Rows 0..39 are a clump of dark matter at rest at the origin with eight  *)
(* extra particles interleaved; rows 40..71 are a clump of stars.          *)
(***************************************************************************)
Rows == 0..71

ExtraRows == {3, 7, 11, 13, 17, 19, 23, 29}

pdata ==
  [ ptype |-> [r \in Rows |->
       CASE r \in {3, 13}  -> ptype_ints.gas
         [] r = 17         -> ptype_ints.star
         [] r \in {11, 19} -> PTYPE_BH
         [] r >= 40        -> ptype_ints.star
         [] OTHER          -> ptype_ints.dm ],
    mass |-> [r \in Rows |-> IF r = 29 THEN 2 ELSE 1],
    pos  |-> [r \in Rows |->
       CASE r = 3  -> <<0, 1, 0>>
         [] r = 7  -> <<1, 1, 0>>
         [] r = 13 -> <<3, 0, 0>>
         [] r = 17 -> <<0, 0, 1>>
         [] r = 19 -> <<0, 2, 0>>
         [] r = 23 -> <<1, 0, 0>>
         [] r = 29 -> <<0, 1, 1>>
         [] OTHER  -> <<0, 0, 0>> ],
    vel  |-> [r \in Rows |->
       CASE r = 7  -> <<3, 0, 0>>
         [] r = 13 -> <<1, 0, 0>>
         [] r = 19 -> <<0, 3, 0>>
         [] OTHER  -> <<0, 0, 0>> ],
    indexes |-> [r \in Rows |-> 100 + ((r * 37) % 97)] ]

(***************************************************************************)
(* Sequences.                                                              *)
(***************************************************************************)
RECURSIVE SetToSeqAsc(_)
SetToSeqAsc(S) ==
  IF S = {} THEN <<>>
  ELSE LET m == CHOOSE x \in S : \A y \in S : x <= y
       IN  <<m>> \o SetToSeqAsc(S \ {m})

Reverse(s) == [k \in 1..Len(s) |-> s[Len(s) + 1 - k]]

Range(s) == {s[k] : k \in 1..Len(s)}

RECURSIVE SumW(_, _, _)
SumW(rows, w, k) ==
  IF k > Len(rows) THEN 0 ELSE w[rows[k]] + SumW(rows, w, k + 1)

\* np.sum(column[rows]) for a column given as a function of the row
SumColumn(rows, w) == SumW(rows, w, 1)

(***************************************************************************)
(* Exact comparisons standing for the floating-point ones.                 *)
(***************************************************************************)
Sq(x) == x * x

RECURSIVE ISqrtIter(_, _, _)
ISqrtIter(n, lo, hi) ==
  IF lo >= hi THEN lo
  ELSE LET mid == (lo + hi + 1) \div 2
       IN  IF mid * mid <= n THEN ISqrtIter(n, mid, hi)
           ELSE ISqrtIter(n, lo, mid - 1)

\* floor(sqrt(n)) for n >= 0
ISqrt(n) == ISqrtIter(n, 0, IF n < 46340 THEN n ELSE 46340)

\* a/b > c/d for a, c >= 0 and b, d > 0, by continued fractions
RECURSIVE FracGT(_, _, _, _)
FracGT(a, b, c, d) ==
  LET qa == a \div b
      qc == c \div d
      ra == a % b
      rc == c % d
  IN  IF qa # qc THEN qa > qc
      ELSE IF ra = 0 THEN FALSE
      ELSE IF rc = 0 THEN TRUE
      ELSE FracGT(d, rc, b, ra)

\* A * sqrt(R2) > K for A > 0, R2 >= 0, K >= 0
SqrtGT(A, R2, K) ==
  LET s   == ISqrt(R2)
      q   == K \div A
      rem == K % A
      e   == R2 - s * s
      T   == e * A - 2 * s * rem
  IN  IF s > q THEN TRUE
      ELSE IF s < q THEN FALSE
      ELSE IF rem = 0 THEN e > 0
      ELSE IF T <= 0 THEN FALSE
      ELSE FracGT(T, rem, rem, A)

(***************************************************************************)
(* The state of one structure (a Halo or a Galaxy instance).               *)
(*   attrs      the instance attributes that exist, among the ones that    *)
(*              are created or deleted after __init__ (hasattr/delattr);   *)
(*   lists      the backing values _glist, _slist, _dmlist of the lists:   *)
(*              tag "absent" (no attribute), "int" (an integer) or "seq";  *)
(*   masses     the dictionary masses, NoEntry for a key it does not hold; *)
(*   pos, vel   the centre of mass, num[i] / den (with attrs);             *)
(*   radii, temperatures       the keys those dictionaries hold;          *)
(*   candidate  the candidate group the structure was created from;        *)
(*   persisted, restore_calls, last_op   the lists' backing store, the     *)
(*              calls of restore_single_list and the last descriptor call. *)
(* The state of one run of driver.drive:                                   *)
(*   args       the arguments snapdirs, snapnums, progen, skipran and       *)
(*              member_search of the call;                                 *)
(*   mpi        using_mpi and nprocs;                                      *)
(*   snapfiles, outfiles   the snapshot files and the CAESAR output files  *)
(*              that exist, each named by the (directory, number) of its   *)
(*              snapshot;                                                  *)
(*   ranks      for each rank its position in drive and its locals;        *)
(*   search_log, progen_log   which rank searched and saved which          *)
(*              snapshot, and which rank ran progen_finder on which pair.  *)
(***************************************************************************)
VARIABLES obj_type, pc, candidate, attrs, particle_indexes, particle_data,
          lists, ngas, nstar, ndm, masses, pos, vel, unbound_indexes,
          unbind_iterations, radii, temperatures,
          persisted, restore_calls, last_op,
          args, mpi, snapfiles, outfiles, ranks, search_log, progen_log

vars == <<obj_type, pc, candidate, attrs, particle_indexes, particle_data,
          lists, ngas, nstar, ndm, masses, pos, vel, unbound_indexes,
          unbind_iterations, radii, temperatures,
          persisted, restore_calls, last_op,
          args, mpi, snapfiles, outfiles, ranks, search_log, progen_log>>

lazy_vars == <<persisted, restore_calls, last_op>>

drive_vars ==
  <<args, mpi, snapfiles, outfiles, ranks, search_log, progen_log>>

\* no run of drive is part of the behaviour
NoDrive ==
  /\ args = [snapdirs |-> <<>>, snapnums |-> <<>>, progen |-> FALSE,
             skipran |-> FALSE, member_search |-> FALSE]
  /\ mpi = [using_mpi |-> FALSE, nprocs |-> 0]
  /\ snapfiles = {}
  /\ outfiles = {}
  /\ ranks = <<>>
  /\ search_log = {}
  /\ progen_log = {}

ListNames == {"glist", "slist", "dmlist"}

Absent == [tag |-> "absent", val |-> <<>>]

IntValue == [tag |-> "int", val |-> <<>>]

Materialized(v) == [tag |-> "seq", val |-> v]

NoCenter == [num |-> <<0, 0, 0>>, den |-> 0]

NoMasses ==
  [total |-> NoEntry, dm |-> NoEntry, gas |-> NoEntry, stellar |-> NoEntry,
   baryon |-> NoEntry]

LedgerKeys == {ptype_ints.gas, ptype_ints.star, ptype_ints.dm}

EmptyLedger == [t \in LedgerKeys |-> <<>>]

NoOp == [op |-> "none", name |-> "none", restored |-> FALSE, val |-> Absent]

(***************************************************************************)
(* GroupList: the descriptor of the lazy membership lists.                 *)
(***************************************************************************)
\* the lists that are descriptors of the class: dmlist only of a Halo
LazyNames(ot) == IF ot = "halo" THEN ListNames ELSE {"glist", "slist"}

\* loader.restore_single_list(obj, instance, name): sets the backing value
\* of that one list to the sequence persisted for the structure
restore_single_list(l, store, name) ==
  [l EXCEPT ![name] = Materialized(store[name])]

\* mutant: the integer case of the condition is left out
NeedsRestore_absent_only(l, name) == l[name].tag = "absent"

\* the condition of GroupList.__get__ under which restore is called
NeedsRestore(l, name) == l[name].tag = "absent" \/ l[name].tag = "int"

\* GroupList.__get__: the backing values after the read, whether
\* restore_single_list was called, and the value returned
GroupList_get(l, store, name) ==
  LET after == IF NeedsRestore(l, name)
               THEN restore_single_list(l, store, name) ELSE l
  IN  [lists |-> after, restored |-> NeedsRestore(l, name),
       value |-> after[name]]

\* mutant: every descriptor writes the same backing attribute
GroupList_set_one_attribute(l, name, v) ==
  [l EXCEPT !["glist"] = Materialized(v)]

\* GroupList.__set__: the backing values after the write of v
GroupList_set(l, name, v) == [l EXCEPT ![name] = Materialized(v)]

(***************************************************************************)
(* Group.valid                                                             *)
(***************************************************************************)
\* mutant: the thresholds taken one too low
valid_one_too_low(ot, n_dm, n_star) ==
  IF ot = "halo" /\ n_dm < MINIMUM_DM_PER_HALO - 1 THEN FALSE
  ELSE IF ot = "galaxy" /\ n_star < MINIMUM_STARS_PER_GALAXY - 1 THEN FALSE
  ELSE TRUE

\* mutant: every structure is valid
valid_always(ot, n_dm, n_star) == TRUE

\* mutant: <= for <
valid_not_above(ot, n_dm, n_star) ==
  IF ot = "halo" /\ n_dm <= MINIMUM_DM_PER_HALO THEN FALSE
  ELSE IF ot = "galaxy" /\ n_star <= MINIMUM_STARS_PER_GALAXY THEN FALSE
  ELSE TRUE

valid(ot, n_dm, n_star) ==
  IF ot = "halo" /\ n_dm < MINIMUM_DM_PER_HALO THEN FALSE
  ELSE IF ot = "galaxy" /\ n_star < MINIMUM_STARS_PER_GALAXY THEN FALSE
  ELSE TRUE

(***************************************************************************)
(* _assign_particle_data: particle_data[k] = v[particle_indexes] for every *)
(* column v.  The slice is kept as the table rows it copies.               *)
(***************************************************************************)
assign_particle_data(pi) == pi

\* np.where(particle_data['ptype'] == t)[0]: the local positions, ascending
RECURSIVE WhereFrom(_, _, _)
WhereFrom(pd, t, k) ==
  IF k > Len(pd) THEN <<>>
  ELSE (IF pdata.ptype[pd[k]] = t THEN <<k - 1>> ELSE <<>>)
       \o WhereFrom(pd, t, k + 1)

where_ptype(pd, t) == WhereFrom(pd, t, 1)

\* _assign_local_indexes: the three lists written through __set__
assign_local_indexes(l, pd) ==
  GroupList_set(
    GroupList_set(
      GroupList_set(l, "glist", where_ptype(pd, ptype_ints.gas)),
      "slist", where_ptype(pd, ptype_ints.star)),
    "dmlist", where_ptype(pd, ptype_ints.dm))

\* the table rows at the local positions of a list: particle_data[...][list]
RowsAt(pd, lst) == [k \in 1..Len(lst) |-> pd[lst[k] + 1]]

\* mutant: the lists are left as local positions
global_plist_left_local(pd, lst) == lst

\* _assign_global_plists: particle_data['indexes'][list] for each list
global_plist(pd, lst) == [k \in 1..Len(lst) |-> pdata.indexes[pd[lst[k] + 1]]]

\* _calculate_total_mass: np.sum(particle_data['mass'])
total_mass(pd) == SumColumn(pd, pdata.mass)

\* mutant: the sum is not weighted by the mass
center_of_mass_unweighted(pd, q, mtot) ==
  [num |-> [i \in 1..3 |-> SumColumn(pd, [r \in Rows |-> q[r][i]])],
   den |-> mtot]

\* get_center_of_mass_quantity: sum(mass * q[:, i]) / masses['total']
center_of_mass(pd, q, mtot) ==
  [num |-> [i \in 1..3 |->
              SumColumn(pd, [r \in Rows |-> pdata.mass[r] * q[r][i]])],
   den |-> mtot]

(***************************************************************************)
(* _unbind, lines 146-164: energy > 0 for the particle of table row r,     *)
(* given the stored centre of mass c (pos), cv (vel) and masses['total'].  *)
(*   r  = LENGTH_IN_KPC * sqrt(R2) / c.den                                 *)
(*   v2 = VELOCITY_IN_KPC_S^2 * V2 / cv.den^2                              *)
(*   energy = -(m * G * (mtot - m) / r) + 0.5 * m * v2                     *)
(* For m > 0 and r > 0 its sign is that of v2 * r - 2 * G * (mtot - m).    *)
(* With r = 0 numpy's division gives -inf, nan or +inf.                    *)
(***************************************************************************)
Dist2(c, p) ==
  Sq(c.den * p[1] - c.num[1]) + Sq(c.den * p[2] - c.num[2])
    + Sq(c.den * p[3] - c.num[3])

EnergyPositive(r, c, cv, mtot) ==
  LET m  == MASS_IN_MSUN * pdata.mass[r]
      R2 == Dist2(c, pdata.pos[r])
      V2 == Dist2(cv, pdata.vel[r])
      A  == G_DEN * Sq(VELOCITY_IN_KPC_S) * LENGTH_IN_KPC * V2
      K  == 2 * G_NUM * (mtot - m) * Sq(cv.den) * c.den
  IN  IF m = 0 THEN FALSE
      ELSE IF R2 = 0 THEN mtot - m < 0
      ELSE IF K < 0 THEN TRUE
      ELSE IF A = 0 THEN FALSE
      ELSE SqrtGT(A, R2, K)

\* positive = np.where(energy > 0)[0]: the local positions, ascending
RECURSIVE PositiveFrom(_, _, _, _, _)
PositiveFrom(pd, c, cv, mtot, k) ==
  IF k > Len(pd) THEN <<>>
  ELSE (IF EnergyPositive(pd[k], c, cv, mtot) THEN <<k - 1>> ELSE <<>>)
       \o PositiveFrom(pd, c, cv, mtot, k + 1)

positive_indexes(pd, c, cv, mtot) == PositiveFrom(pd, c, cv, mtot, 1)

\* del s[i]
DeleteAt(s, i) == SubSeq(s, 1, i) \o SubSeq(s, i + 2, Len(s))

\* mutant: every index is appended under dm
LedgerAppend_under_dm(ub, t, g) ==
  [ub EXCEPT ![ptype_ints.dm] = Append(@, g)]

\* unbound_indexes[t].append(g); a key the dictionary lacks is a KeyError
LedgerAppend(ub, t, g) == [ub EXCEPT ![t] = Append(@, g)]

\* the removal loop over positive[::-1] (lines 166-169), from the k-th
\* entry of order on; st = [pi, ub, error]
RECURSIVE RemoveLoop(_, _, _, _)
RemoveLoop(st, pd, order, k) ==
  IF k > Len(order) THEN st
  ELSE LET i == order[k]
           t == pdata.ptype[pd[i + 1]]
       IN  IF t \notin DOMAIN st.ub THEN [st EXCEPT !.error = TRUE]
           ELSE RemoveLoop(
                  [pi    |-> DeleteAt(st.pi, i),
                   ub    |-> LedgerAppend(st.ub, t, pdata.indexes[pd[i + 1]]),
                   error |-> FALSE],
                  pd, order, k + 1)

\* positive[::-1]
removal_order(positive) == Reverse(positive)

(***************************************************************************)
(* The derived quantities of lines 69-72.                                  *)
(***************************************************************************)
\* mutant: the stellar mass summed over glist
calculate_masses_star_from_glist(m, l, pd) ==
  LET mass_dm   == SumColumn(RowsAt(pd, l["dmlist"].val), pdata.mass)
      mass_gas  == SumColumn(RowsAt(pd, l["glist"].val), pdata.mass)
      mass_star == SumColumn(RowsAt(pd, l["glist"].val), pdata.mass)
  IN  [m EXCEPT !.dm = mass_dm, !.gas = mass_gas, !.stellar = mass_star,
                !.baryon = mass_gas + mass_star, !.total = total_mass(pd)]

\* _calculate_masses, with the _calculate_total_mass that ends it
calculate_masses(m, l, pd) ==
  LET mass_dm   == SumColumn(RowsAt(pd, l["dmlist"].val), pdata.mass)
      mass_gas  == SumColumn(RowsAt(pd, l["glist"].val), pdata.mass)
      mass_star == SumColumn(RowsAt(pd, l["slist"].val), pdata.mass)
  IN  [m EXCEPT !.dm = mass_dm, !.gas = mass_gas, !.stellar = mass_star,
                !.baryon = mass_gas + mass_star, !.total = total_mass(pd)]

\* the keys _calculate_virial_quantities puts in radii and in temperatures
VirialRadii == {"virial", "r200c"}

VirialTemperatures == {"virial"}

\* the attributes that _calculate_virial_quantities,
\* _calculate_velocity_dispersions and _calculate_angular_quantities create
DerivedAttrs ==
  {"virial_quantities", "velocity_dispersions", "total_angular_momentum",
   "angular_momentum_vector", "spin"}

\* _cleanup: the three _delete_attribute calls
TransientAttrs == {"particle_data", "particle_indexes", "_pdata"}

\* mutant: _pdata is not deleted
cleanup_keeps_pdata(a) == a \ {"particle_data", "particle_indexes"}

cleanup(a) == a \ TransientAttrs

(***************************************************************************)
(* The candidate groups: the first n rows of the bulk of the defining      *)
(* species and up to MaxExtras of the extra rows, as an ascending or a     *)
(* descending list of distinct table rows.                                 *)
(***************************************************************************)
DmBulk == SetToSeqAsc((0..39) \ ExtraRows)

StarBulk == SetToSeqAsc(40..71)

Bulk(ot) == IF ot = "halo" THEN DmBulk ELSE StarBulk

Minimum(ot) ==
  IF ot = "halo" THEN MINIMUM_DM_PER_HALO ELSE MINIMUM_STARS_PER_GALAXY

Candidates(ot) ==
  UNION { LET asc == SetToSeqAsc(Range(SubSeq(Bulk(ot), 1, Minimum(ot) - s))
                                   \cup E)
          IN  {asc, Reverse(asc)}
          : s \in 1..MaxBulkShort,
            E \in {X \in SUBSET ExtraRows : Cardinality(X) <= MaxExtras} }

(***************************************************************************)
(* Init: a Halo or a Galaxy after create_new_group and after the supplier  *)
(* of the candidate group has set particle_indexes.                        *)
(***************************************************************************)
Init ==
  /\ obj_type \in {"halo", "galaxy"}
  /\ candidate \in Candidates(obj_type)
  /\ pc = "created"
  /\ attrs = {"particle_indexes"}
  /\ particle_indexes = candidate
  /\ particle_data = <<>>
  /\ lists = [n \in ListNames |-> Absent]
  /\ ngas = NoEntry
  /\ nstar = NoEntry
  /\ ndm = NoEntry
  /\ masses = NoMasses
  /\ pos = NoCenter
  /\ vel = NoCenter
  /\ unbound_indexes = EmptyLedger
  /\ unbind_iterations = 0
  /\ radii = {}
  /\ temperatures = {}
  /\ persisted = [n \in ListNames |-> <<>>]
  /\ restore_calls = [n \in ListNames |-> 0]
  /\ last_op = NoOp
  /\ NoDrive

(***************************************************************************)
(* _process_group, lines 59-61.                                            *)
(***************************************************************************)
AssignStep ==
  /\ pc = "created"
  /\ LET pd == assign_particle_data(particle_indexes)
         l  == assign_local_indexes(lists, pd)
     IN  /\ particle_data' = pd
         /\ lists' = l
         /\ ngas' = Len(l["glist"].val)
         /\ nstar' = Len(l["slist"].val)
         /\ ndm' = Len(l["dmlist"].val)
  /\ attrs' = attrs \cup {"_pdata", "particle_data"}
  /\ pc' = "assigned"
  /\ UNCHANGED <<obj_type, candidate, particle_indexes, masses, pos, vel,
                 unbound_indexes, unbind_iterations, radii, temperatures,
                 lazy_vars,
                 drive_vars>>

\* line 63, the structure is not valid: on to _cleanup
AbandonInitial ==
  /\ pc = "assigned"
  /\ ~valid(obj_type, ndm, nstar)
  /\ pc' = "cleanup"
  /\ UNCHANGED <<obj_type, candidate, attrs, particle_indexes, particle_data,
                 lists, ngas, nstar, ndm, masses, pos, vel, unbound_indexes,
                 unbind_iterations, radii, temperatures, lazy_vars,
                 drive_vars>>

\* lines 63-65: _calculate_total_mass, _calculate_center_of_mass_quantities
CenterOfMassStep ==
  /\ pc = "assigned"
  /\ valid(obj_type, ndm, nstar)
  /\ LET mtot == total_mass(particle_data)
     IN  /\ masses' = [masses EXCEPT !.total = mtot]
         /\ pos' = center_of_mass(particle_data, pdata.pos, mtot)
         /\ vel' = center_of_mass(particle_data, pdata.vel, mtot)
  /\ attrs' = attrs \cup {"pos", "vel"}
  /\ pc' = "unbind"
  /\ UNCHANGED <<obj_type, candidate, particle_indexes, particle_data, lists,
                 ngas, nstar, ndm, unbound_indexes, unbind_iterations, radii,
                 temperatures, lazy_vars,
                 drive_vars>>

\* _unbind, lines 131-134
unbind_disabled(ot) ==
  \/ ot = "halo" /\ ~UNBIND_HALOS
  \/ ot = "galaxy" /\ ~UNBIND_GALAXIES

UnbindDisabled ==
  /\ pc = "unbind"
  /\ unbind_disabled(obj_type)
  /\ pc' = "unbound"
  /\ UNCHANGED <<obj_type, candidate, attrs, particle_indexes, particle_data,
                 lists, ngas, nstar, ndm, masses, pos, vel, unbound_indexes,
                 unbind_iterations, radii, temperatures, lazy_vars,
                 drive_vars>>

\* mutant: the ledger is created anew by every call
ledger_always_new(a, ub) == EmptyLedger

\* lines 136-141: the ledger is created by the first call only
ledger_at_entry(a, ub) == IF "unbound_indexes" \in a THEN ub ELSE EmptyLedger

\* mutant: the counter starts from 0 in every call
iterations_from_zero(a, it) == 0

\* lines 142-143: the counter is created, as 0, by the first call only
iterations_at_entry(a, it) == IF "unbind_iterations" \in a THEN it ELSE 0

\* mutant: the removal and the recursive call are not guarded
any_positive_unguarded(positive) == TRUE

\* mutant: nothing is ever removed
any_positive_never(positive) == FALSE

\* line 165: len(positive) > 0
any_positive(positive) == Len(positive) > 0

(***************************************************************************)
(* One call of _unbind that gets past the gate (lines 136-179): a pass.    *)
(* The recursive call of line 179 is the next UnbindPass.  A KeyError of   *)
(* line 168 leaves _process_group by the exception: pc = "crashed".        *)
(***************************************************************************)
UnbindPass ==
  /\ pc = "unbind"
  /\ ~unbind_disabled(obj_type)
  /\ attrs' = attrs \cup {"unbound_indexes", "unbind_iterations"}
  /\ unbind_iterations' = iterations_at_entry(attrs, unbind_iterations) + 1
  /\ LET ub0      == ledger_at_entry(attrs, unbound_indexes)
         positive == positive_indexes(particle_data, pos, vel, masses.total)
         st       == RemoveLoop(
                       [pi |-> particle_indexes, ub |-> ub0, error |-> FALSE],
                       particle_data, removal_order(positive), 1)
         pd       == assign_particle_data(st.pi)
         l        == assign_local_indexes(lists, pd)
         n_dm     == Len(l["dmlist"].val)
         n_star   == Len(l["slist"].val)
         mtot     == total_mass(pd)
     IN  IF ~any_positive(positive)
         THEN /\ pc' = "unbound"
              /\ unbound_indexes' = ub0
              /\ UNCHANGED <<particle_indexes, particle_data, lists, ngas,
                             nstar, ndm, masses, pos, vel>>
         ELSE IF st.error
         THEN /\ pc' = "crashed"
              /\ unbound_indexes' = st.ub
              /\ particle_indexes' = st.pi
              /\ UNCHANGED <<particle_data, lists, ngas, nstar, ndm, masses,
                             pos, vel>>
         ELSE /\ unbound_indexes' = st.ub
              /\ particle_indexes' = st.pi
              /\ particle_data' = pd
              /\ lists' = l
              /\ ngas' = Len(l["glist"].val)
              /\ nstar' = n_star
              /\ ndm' = n_dm
              /\ IF ~valid(obj_type, n_dm, n_star)
                 THEN /\ pc' = "unbound"
                      /\ UNCHANGED <<masses, pos, vel>>
                 ELSE /\ pc' = "unbind"
                      /\ masses' = [masses EXCEPT !.total = mtot]
                      /\ pos' = center_of_mass(pd, pdata.pos, mtot)
                      /\ vel' = center_of_mass(pd, pdata.vel, mtot)
  /\ UNCHANGED <<obj_type, candidate, radii, temperatures, lazy_vars,
                 drive_vars>>

\* line 68, the structure is not valid any more: on to _cleanup
AbandonUnbound ==
  /\ pc = "unbound"
  /\ ~valid(obj_type, ndm, nstar)
  /\ pc' = "cleanup"
  /\ UNCHANGED <<obj_type, candidate, attrs, particle_indexes, particle_data,
                 lists, ngas, nstar, ndm, masses, pos, vel, unbound_indexes,
                 unbind_iterations, radii, temperatures, lazy_vars,
                 drive_vars>>

\* lines 68-72: the masses, the virial quantities, the velocity
\* dispersions and the angular quantities
QuantitiesStep ==
  /\ pc = "unbound"
  /\ valid(obj_type, ndm, nstar)
  /\ masses' = calculate_masses(masses, lists, particle_data)
  /\ radii' = radii \cup VirialRadii
  /\ temperatures' = temperatures \cup VirialTemperatures
  /\ attrs' = attrs \cup DerivedAttrs
  /\ pc' = "quantities"
  /\ UNCHANGED <<obj_type, candidate, particle_indexes, particle_data, lists,
                 ngas, nstar, ndm, pos, vel, unbound_indexes,
                 unbind_iterations, lazy_vars,
                 drive_vars>>

\* line 73: _assign_global_plists
GlobalListsStep ==
  /\ pc = "quantities"
  /\ lists' =
       GroupList_set(
         GroupList_set(
           GroupList_set(lists, "glist",
                         global_plist(particle_data, lists["glist"].val)),
           "slist", global_plist(particle_data, lists["slist"].val)),
         "dmlist", global_plist(particle_data, lists["dmlist"].val))
  /\ pc' = "cleanup"
  /\ UNCHANGED <<obj_type, candidate, attrs, particle_indexes, particle_data,
                 ngas, nstar, ndm, masses, pos, vel, unbound_indexes,
                 unbind_iterations, radii, temperatures, lazy_vars,
                 drive_vars>>

\* line 75: _cleanup, and _process_group returns
CleanupStep ==
  /\ pc = "cleanup"
  /\ attrs' = cleanup(attrs)
  /\ particle_indexes' =
       IF "particle_indexes" \in attrs' THEN particle_indexes ELSE <<>>
  /\ particle_data' =
       IF "particle_data" \in attrs' THEN particle_data ELSE <<>>
  /\ pc' = "done"
  /\ UNCHANGED <<obj_type, candidate, lists, ngas, nstar, ndm, masses, pos,
                 vel, unbound_indexes, unbind_iterations, radii, temperatures,
                 lazy_vars,
                 drive_vars>>

Next ==
  \/ AssignStep
  \/ AbandonInitial
  \/ CenterOfMassStep
  \/ UnbindDisabled
  \/ UnbindPass
  \/ AbandonUnbound
  \/ QuantitiesStep
  \/ GlobalListsStep
  \/ CleanupStep

Spec == Init /\ [][Next]_vars

(***************************************************************************)
(* The lazy membership lists of a structure that the loader has restored   *)
(* from a CAESAR file: each backing value is absent, an integer, or a      *)
(* sequence already in memory; persisted is what the file holds.  A        *)
(* Galaxy has no dmlist descriptor.  The callers read and write the lists  *)
(* in any order; a write stores a sequence of indices.                     *)
(***************************************************************************)
PersistedValue ==
  [glist |-> <<151, 188>>, slist |-> <<114>>, dmlist |-> <<100, 137, 174>>]

WrittenValues == {<<>>, <<7, 9>>}

LazyInit ==
  /\ obj_type \in {"halo", "galaxy"}
  /\ pc = "loaded"
  /\ candidate = <<>>
  /\ attrs = {}
  /\ particle_indexes = <<>>
  /\ particle_data = <<>>
  /\ lists \in [ListNames ->
                  {Absent, IntValue} \cup {Materialized(v) : v \in WrittenValues}]
  /\ obj_type = "galaxy" => lists["dmlist"] = Absent
  /\ ngas = NoEntry
  /\ nstar = NoEntry
  /\ ndm = NoEntry
  /\ masses = NoMasses
  /\ pos = NoCenter
  /\ vel = NoCenter
  /\ unbound_indexes = EmptyLedger
  /\ unbind_iterations = 0
  /\ radii = {}
  /\ temperatures = {}
  /\ persisted \in [ListNames -> {<<>>, <<151, 188>>, <<114>>, <<100, 137, 174>>}]
  /\ \A n \in ListNames : persisted[n] \in {<<>>, PersistedValue[n]}
  /\ restore_calls = [n \in ListNames |-> 0]
  /\ last_op = NoOp
  /\ NoDrive

pipeline_vars ==
  <<obj_type, pc, candidate, attrs, particle_indexes, particle_data, ngas,
    nstar, ndm, masses, pos, vel, unbound_indexes, unbind_iterations, radii,
    temperatures>>

\* a read of structure.<name>: GroupList.__get__
GetList(name) ==
  /\ pc = "loaded"
  /\ name \in LazyNames(obj_type)
  /\ LET g == GroupList_get(lists, persisted, name)
     IN  /\ g.restored => restore_calls[name] < MaxRestores
         /\ lists' = g.lists
         /\ restore_calls' =
              IF g.restored THEN [restore_calls EXCEPT ![name] = @ + 1]
              ELSE restore_calls
         /\ last_op' = [op |-> "get", name |-> name, restored |-> g.restored,
                        val |-> g.value]
  /\ UNCHANGED <<pipeline_vars, persisted, drive_vars>>

\* a write structure.<name> = v: GroupList.__set__
SetList(name, v) ==
  /\ pc = "loaded"
  /\ name \in LazyNames(obj_type)
  /\ lists' = GroupList_set(lists, name, v)
  /\ last_op' = [op |-> "set", name |-> name, restored |-> FALSE,
                 val |-> Materialized(v)]
  /\ UNCHANGED <<pipeline_vars, persisted, restore_calls, drive_vars>>

LazyNext ==
  \/ \E name \in ListNames : GetList(name)
  \/ \E name \in ListNames, v \in WrittenValues : SetList(name, v)

LazySpec == LazyInit /\ [][LazyNext]_vars

(***************************************************************************)
(* driver.py: drive and Snapshot.                                          *)
(*                                                                         *)
(* Every rank runs drive with the same arguments and builds its own        *)
(* Snapshot objects; the files are shared.  A snapshot and its CAESAR      *)
(* output file are named by the record [dir, num]: the path                *)
(* '%s/%s%03d.%s' and the output path of set_output_information are        *)
(* functions of the directory and the number that give different paths to  *)
(* different (directory, number) pairs.                                    *)
(***************************************************************************)
MaxProcs == 2

MaxMissing == 1

MaxOutfiles == 3

\* an element of the list snapnums: a number, or the type object int
Number(n) == [is_number |-> TRUE, val |-> n]

IntType == [is_number |-> FALSE, val |-> 0]

\* the values of the argument snapdirs: a str or a list of str
SnapdirsArgs ==
  { [tag |-> "str",  str |-> "simA", list |-> <<>>],
    [tag |-> "list", str |-> "",     list |-> <<"simA">>],
    [tag |-> "list", str |-> "",     list |-> <<"simA", "simB">>] }

\* the values of the argument snapnums: an int or a list of int
SnapnumsArgs ==
  { [tag |-> "int",  int |-> 5, list |-> <<>>],
    [tag |-> "list", int |-> 0, list |-> <<5>>],
    [tag |-> "list", int |-> 0, list |-> <<5, 6>>] }

\* lines 155-156
normalize_snapdirs(a) == IF a.tag = "str" THEN <<a.str>> ELSE a.list

\* lines 157-158: snapnums = [int]
normalize_snapnums(a) ==
  IF a.tag = "int" THEN <<IntType>>
  ELSE [k \in 1..Len(a.list) |-> Number(a.list[k])]

\* Snapshot.__init__: '%03d' % snapnum raises TypeError unless snapnum is
\* a number
Snapshot_init(snapdir, snapnum) ==
  [error |-> ~snapnum.is_number,
   snap  |-> [dir |-> snapdir, num |-> snapnum.val]]

\* lines 174-177: the list snaps, directory by directory; error when a
\* Snapshot could not be constructed
create_snaps(dirs, nums) ==
  LET made == [k \in 1..(Len(dirs) * Len(nums)) |->
                 Snapshot_init(dirs[((k - 1) \div Len(nums)) + 1],
                               nums[((k - 1) % Len(nums)) + 1])]
  IN  [error |-> \E k \in 1..Len(made) : made[k].error,
       snaps |-> [k \in 1..Len(made) |-> made[k].snap]]

\* s[rank::n]
Slice(s, rank, n) ==
  LET count == IF Len(s) > rank THEN (Len(s) - rank + n - 1) \div n ELSE 0
  IN  [k \in 1..count |-> s[rank + (k - 1) * n + 1]]

\* mutant: skipran is not looked at
member_search_ignores_skipran(snap, files, outs, skipran) ==
  IF snap \notin files
  THEN [ran |-> FALSE, has_outfile |-> FALSE, outfiles |-> outs]
  ELSE [ran |-> TRUE, has_outfile |-> TRUE, outfiles |-> outs \cup {snap}]

\* Snapshot.member_search: whether the search ran and saved, whether the
\* object got its attribute outfile, and the output files afterwards
member_search(snap, files, outs, skipran) ==
  IF snap \notin files
  THEN [ran |-> FALSE, has_outfile |-> FALSE, outfiles |-> outs]
  ELSE IF snap \in outs /\ skipran
  THEN [ran |-> FALSE, has_outfile |-> TRUE, outfiles |-> outs]
  ELSE [ran |-> TRUE, has_outfile |-> TRUE, outfiles |-> outs \cup {snap}]

\* lines 184-186: where drive goes after the member searches
after_search(a, m) ==
  IF ~a.progen THEN "done"
  ELSE IF m.using_mpi THEN "barrier" ELSE "verify"

\* lines 188-197: yt.load of a snapshot whose file is missing raises
verify_snaps(snaps, has, files, outs) ==
  [error    |-> \E k \in 1..Len(snaps) :
                  snaps[k] \notin has /\ snaps[k] \notin files,
   verified |-> SelectSeq(snaps, LAMBDA x : x \in outs),
   missing  |-> SelectSeq(snaps, LAMBDA x : x \notin outs)]

\* lines 204-206: (verified[i], verified[i-1]) for i from last to 1
make_progen_pairs(v) ==
  [k \in 1..(Len(v) - 1) |-> <<v[Len(v) - k + 1], v[Len(v) - k]>>]

\* the snapshots the arguments name
Named(a) ==
  LET dirs == normalize_snapdirs(a.snapdirs)
      nums == IF a.snapnums.tag = "int" THEN <<a.snapnums.int>>
              ELSE a.snapnums.list
  IN  {[dir |-> dirs[i], num |-> nums[j]] :
         i \in 1..Len(dirs), j \in 1..Len(nums)}

\* no structure is part of the behaviour
NoStructure ==
  /\ obj_type = "halo"
  /\ pc = "drive"
  /\ candidate = <<>>
  /\ attrs = {}
  /\ particle_indexes = <<>>
  /\ particle_data = <<>>
  /\ lists = [n \in ListNames |-> Absent]
  /\ ngas = NoEntry
  /\ nstar = NoEntry
  /\ ndm = NoEntry
  /\ masses = NoMasses
  /\ pos = NoCenter
  /\ vel = NoCenter
  /\ unbound_indexes = EmptyLedger
  /\ unbind_iterations = 0
  /\ radii = {}
  /\ temperatures = {}
  /\ persisted = [n \in ListNames |-> <<>>]
  /\ restore_calls = [n \in ListNames |-> 0]
  /\ last_op = NoOp

structure_vars == <<pipeline_vars, lists, lazy_vars>>

RankAtEntry ==
  [pc |-> "start", snaps |-> <<>>, rank_snaps |-> <<>>, done |-> 0,
   has_outfile |-> {}, arrived |-> FALSE, verified_snaps |-> <<>>,
   missing_snaps |-> <<>>, progen_pairs |-> <<>>, rank_progen_pairs |-> <<>>]

\* drive is entered on every rank; without mpi4py there is one rank
DriveInit ==
  /\ NoStructure
  /\ args \in [snapdirs : SnapdirsArgs, snapnums : SnapnumsArgs,
               progen : BOOLEAN, skipran : BOOLEAN, member_search : BOOLEAN]
  /\ mpi \in [using_mpi : BOOLEAN, nprocs : 1..MaxProcs]
  /\ ~mpi.using_mpi => mpi.nprocs = 1
  /\ \E M \in SUBSET Named(args) :
       /\ Cardinality(M) <= MaxMissing
       /\ snapfiles = Named(args) \ M
  /\ outfiles \in {O \in SUBSET Named(args) : Cardinality(O) <= MaxOutfiles}
  /\ ranks = [r \in 0..(mpi.nprocs - 1) |-> RankAtEntry]
  /\ search_log = {}
  /\ progen_log = {}

\* a rank leaves the member searches: lines 184-186, comm.Barrier() entered
leave_search(rk, a, m) ==
  [rk EXCEPT !.pc = after_search(a, m),
             !.arrived = @ \/ after_search(a, m) = "barrier"]

\* lines 155-180: the arguments are normalized, snaps is built and the
\* rank's slice of it is taken; a TypeError of Snapshot.__init__ ends drive
DriveStart(r) ==
  /\ ranks[r].pc = "start"
  /\ LET c    == create_snaps(normalize_snapdirs(args.snapdirs),
                              normalize_snapnums(args.snapnums))
         mine == IF args.member_search
                 THEN Slice(c.snaps, r, mpi.nprocs) ELSE <<>>
     IN  ranks' =
           IF c.error THEN [ranks EXCEPT ![r].pc = "crashed"]
           ELSE IF mine # <<>>
           THEN [ranks EXCEPT ![r].pc = "search", ![r].snaps = c.snaps,
                              ![r].rank_snaps = mine]
           ELSE [ranks EXCEPT
                   ![r] = leave_search([@ EXCEPT !.snaps = c.snaps], args, mpi)]
  /\ UNCHANGED <<structure_vars, args, mpi, snapfiles, outfiles, search_log,
                 progen_log>>

\* lines 181-182: snap.member_search(skipran) for the rank's next snapshot
MemberSearchStep(r) ==
  /\ ranks[r].pc = "search"
  /\ LET rk   == ranks[r]
         snap == rk.rank_snaps[rk.done + 1]
         res  == member_search(snap, snapfiles, outfiles, args.skipran)
         next == [rk EXCEPT !.done = @ + 1,
                            !.has_outfile =
                               IF res.has_outfile THEN @ \cup {snap} ELSE @]
     IN  /\ outfiles' = res.outfiles
         /\ search_log' =
              IF res.ran THEN search_log \cup {[rank |-> r, snap |-> snap]}
              ELSE search_log
         /\ ranks' =
              IF next.done = Len(rk.rank_snaps)
              THEN [ranks EXCEPT ![r] = leave_search(next, args, mpi)]
              ELSE [ranks EXCEPT ![r] = next]
  /\ UNCHANGED <<structure_vars, args, mpi, snapfiles, progen_log>>

\* line 186: comm.Barrier() returns when every rank has entered it
BarrierPass(r) ==
  /\ ranks[r].pc = "barrier"
  /\ \A q \in DOMAIN ranks : ranks[q].arrived
  /\ ranks' = [ranks EXCEPT ![r].pc = "verify"]
  /\ UNCHANGED <<structure_vars, args, mpi, snapfiles, outfiles, search_log,
                 progen_log>>

\* lines 188-208: the verified and the missing snapshots, the progenitor
\* pairs and the rank's slice of them
VerifyStep(r) ==
  /\ ranks[r].pc = "verify"
  /\ LET rk    == ranks[r]
         v     == verify_snaps(rk.snaps, rk.has_outfile, snapfiles, outfiles)
         pairs == make_progen_pairs(v.verified)
         mine  == Slice(pairs, r, mpi.nprocs)
     IN  ranks' =
           IF v.error THEN [ranks EXCEPT ![r].pc = "crashed"]
           ELSE [ranks EXCEPT
                   ![r].pc = IF mine = <<>> THEN "done" ELSE "progen",
                   ![r].done = 0,
                   ![r].has_outfile = @ \cup Range(rk.snaps),
                   ![r].verified_snaps = v.verified,
                   ![r].missing_snaps = v.missing,
                   ![r].progen_pairs = pairs,
                   ![r].rank_progen_pairs = mine]
  /\ UNCHANGED <<structure_vars, args, mpi, snapfiles, outfiles, search_log,
                 progen_log>>

\* lines 209-223: progen_finder on the rank's next pair
ProgenStep(r) ==
  /\ ranks[r].pc = "progen"
  /\ LET rk   == ranks[r]
         pair == rk.rank_progen_pairs[rk.done + 1]
     IN  /\ progen_log' =
              progen_log \cup
                {[rank |-> r, current |-> pair[1], progens |-> pair[2]]}
         /\ ranks' =
              [ranks EXCEPT
                 ![r].done = @ + 1,
                 ![r].pc = IF rk.done + 1 = Len(rk.rank_progen_pairs)
                           THEN "done" ELSE "progen"]
  /\ UNCHANGED <<structure_vars, args, mpi, snapfiles, outfiles, search_log>>

DriveNext ==
  \/ \E r \in DOMAIN ranks : DriveStart(r)
  \/ \E r \in DOMAIN ranks : MemberSearchStep(r)
  \/ \E r \in DOMAIN ranks : BarrierPass(r)
  \/ \E r \in DOMAIN ranks : VerifyStep(r)
  \/ \E r \in DOMAIN ranks : ProgenStep(r)

DriveSpec == DriveInit /\ [][DriveNext]_vars

(***************************************************************************)
(* What the claims speak of.                                               *)
(***************************************************************************)
\* the species whose count decides validity
DefiningSpecies == IF obj_type = "halo" THEN ptype_ints.dm ELSE ptype_ints.star

\* how many rows of a list of table rows are of species t
CountOf(rows, t) == Cardinality({k \in 1..Len(rows) : pdata.ptype[rows[k]] = t})

\* the counts are assigned and the count of the defining species is below
\* the threshold of the kind
BelowThreshold ==
  /\ ndm # NoEntry
  /\ \/ obj_type = "halo" /\ ndm < MINIMUM_DM_PER_HALO
     \/ obj_type = "galaxy" /\ nstar < MINIMUM_STARS_PER_GALAXY

\* none of the quantities of lines 69-72 is populated
NoDerivedQuantities ==
  /\ masses.dm = NoEntry
  /\ masses.gas = NoEntry
  /\ masses.stellar = NoEntry
  /\ masses.baryon = NoEntry
  /\ radii = {}
  /\ temperatures = {}
  /\ attrs \cap DerivedAttrs = {}

(***************************************************************************)
(* C1: when _process_group has returned, the structure holds none of the   *)
(* transient buffers particle_data, particle_indexes and _pdata, whether   *)
(* the group was valid throughout, invalid at the initial assignment or    *)
(* invalidated by an unbinding pass.                                       *)
(***************************************************************************)
C1_BuffersReleased ==
  pc = "done" =>
    /\ "particle_data" \notin attrs
    /\ "particle_indexes" \notin attrs
    /\ "_pdata" \notin attrs

\* a halo that an unbinding pass made invalid has returned
C1_Witness ==
  /\ pc = "done"
  /\ obj_type = "halo"
  /\ unbind_iterations >= 1
  /\ BelowThreshold

(***************************************************************************)
(* C2: a structure whose count of the defining species is below the        *)
(* threshold, at the initial assignment or after an unbinding pass, has    *)
(* none of the species masses, virial quantities, velocity dispersions,    *)
(* angular momentum and spin, in this state and (the count never grows)    *)
(* in every later one; only masses['total'] and pos, vel may exist.       *)
(***************************************************************************)
C2_InvalidNeverComputed ==
  /\ [](BelowThreshold => (NoDerivedQuantities /\ pc # "quantities"))
  /\ [][BelowThreshold => BelowThreshold']_vars

\* a halo invalidated by a pass has returned, with a total mass and a
\* centre of mass
C2_Witness ==
  /\ pc = "done"
  /\ BelowThreshold
  /\ masses.total # NoEntry
  /\ "pos" \in attrs

(***************************************************************************)
(* C3: a candidate with fewer than 32 particles of the defining species    *)
(* is invalid at once: no total mass, no centre of mass, no derived        *)
(* quantity, no unbinding pass (unbind_iterations and unbound_indexes are  *)
(* never created); a candidate with 32 or more of them is valid and goes   *)
(* on to the total mass and the centre of mass.                            *)
(***************************************************************************)
InitialCount == CountOf(candidate, DefiningSpecies)

C3_ThresholdAtAssignment ==
  /\ (pc # "created" /\ InitialCount < 32) =>
       /\ pc \in {"assigned", "cleanup", "done"}
       /\ masses = NoMasses
       /\ "pos" \notin attrs
       /\ "vel" \notin attrs
       /\ NoDerivedQuantities
       /\ "unbind_iterations" \notin attrs
       /\ "unbound_indexes" \notin attrs
  /\ (pc \notin {"created", "assigned"} /\ InitialCount >= 32) =>
       /\ masses.total # NoEntry
       /\ "pos" \in attrs
       /\ "vel" \in attrs

\* a halo candidate of exactly 31 dark-matter particles has returned
C3_Witness ==
  /\ pc = "done"
  /\ obj_type = "halo"
  /\ InitialCount = 31

(***************************************************************************)
(* The passes of the unbinding.                                            *)
(***************************************************************************)
\* the next step is a pass: a call of _unbind that gets past the gate
AtPass == pc = "unbind" /\ ~unbind_disabled(obj_type)

\* the local positions whose energy is > 0 at the start of the pass
PositiveNow ==
  Range(positive_indexes(particle_data, pos, vel, masses.total))

\* s without the entries at the (0-based) positions P, the order kept
WithoutPositions(s, P) ==
  LET keep == SetToSeqAsc({k \in 1..Len(s) : (k - 1) \notin P})
  IN  [j \in 1..Len(keep) |-> s[keep[j]]]

\* a can be got from b by deleting entries of b
RECURSIVE SubseqFrom(_, _, _, _)
SubseqFrom(a, b, i, j) ==
  IF i > Len(a) THEN TRUE
  ELSE IF j > Len(b) THEN FALSE
  ELSE IF a[i] = b[j] THEN SubseqFrom(a, b, i + 1, j + 1)
  ELSE SubseqFrom(a, b, i, j + 1)

IsSubseq(a, b) == SubseqFrom(a, b, 1, 1)

IsPrefix(a, b) == Len(a) <= Len(b) /\ SubSeq(b, 1, Len(a)) = a

LedgerSize(ub) == Len(ub[ptype_ints.gas]) + Len(ub[ptype_ints.star])
                    + Len(ub[ptype_ints.dm])

(***************************************************************************)
(* C4: one pass removes exactly the members whose energy is > 0 at its     *)
(* start: afterwards particle_indexes is the sequence of before without    *)
(* the positive-energy positions, the order of the others kept, and the    *)
(* global index of every removed particle is in the ledger under the       *)
(* species of that particle, the ledger growing by exactly those entries.  *)
(***************************************************************************)
C4_PassRemovesExactlyPositive ==
  [][AtPass =>
       /\ particle_indexes' = WithoutPositions(particle_indexes, PositiveNow)
       /\ \A k \in PositiveNow :
            LET r == particle_data[k + 1]
            IN  /\ pdata.ptype[r] \in DOMAIN unbound_indexes'
                /\ pdata.indexes[r] \in Range(unbound_indexes'[pdata.ptype[r]])
       /\ LedgerSize(unbound_indexes') =
            LedgerSize(unbound_indexes) + Cardinality(PositiveNow)]_vars

(***************************************************************************)
(* C5: while a structure is unbound, particle_indexes only loses entries   *)
(* (it stays a subsequence of what it was, never longer) and every         *)
(* species' ledger only gains entries at its end.                          *)
(***************************************************************************)
C5_UnbindingMonotonic ==
  [][/\ "particle_indexes" \in attrs' =>
          /\ Len(particle_indexes') <= Len(particle_indexes)
          /\ IsSubseq(particle_indexes', particle_indexes)
     /\ \A t \in LedgerKeys : IsPrefix(unbound_indexes[t], unbound_indexes'[t])
     /\ LedgerSize(unbound_indexes') >= LedgerSize(unbound_indexes)]_vars

\* a second pass has run after a pass that removed a particle
C5_Witness ==
  /\ unbind_iterations >= 2
  /\ LedgerSize(unbound_indexes) >= 1
  /\ "particle_indexes" \in attrs
  /\ Len(particle_indexes) < Len(candidate)

(***************************************************************************)
(* C6: the unbinding ends.  A pass is followed by another pass (the        *)
(* recursive call) only if it removed a particle and left the structure    *)
(* valid; a pass that removes nothing, or after which the structure is     *)
(* invalid, is the last; unbind_iterations never exceeds the size of the   *)
(* candidate group plus one; and every step of _process_group makes the    *)
(* variant (the stages left, then the length of particle_indexes) smaller, *)
(* so no run of it is infinite.                                            *)
(***************************************************************************)
StagesLeft ==
  CASE pc = "created"    -> 6
    [] pc = "assigned"   -> 5
    [] pc = "unbind"     -> 4
    [] pc = "unbound"    -> 3
    [] pc = "quantities" -> 2
    [] pc = "cleanup"    -> 1
    [] OTHER             -> 0

Variant ==
  StagesLeft * (Len(candidate) + 1)
    + (IF pc = "unbind" THEN Len(particle_indexes) ELSE 0)

C6_UnbindingTerminates ==
  /\ [](unbind_iterations <= Len(candidate) + 1)
  /\ [][(AtPass /\ pc' = "unbind") =>
          /\ Len(particle_indexes') < Len(particle_indexes)
          /\ ~BelowThreshold']_vars
  /\ [][(AtPass /\ (particle_indexes' = particle_indexes \/ BelowThreshold'))
          => pc' # "unbind"]_vars
  /\ [][Variant' < Variant /\ Variant' >= 0]_vars

\* a halo whose unbinding took three passes has returned
C6_Witness ==
  /\ pc = "done"
  /\ unbind_iterations = 3
  /\ Len(candidate) > 32

(***************************************************************************)
(* C7: with the policy constants as they are, _unbind of a galaxy returns  *)
(* at once: it changes nothing, a galaxy never has a ledger nor an         *)
(* iteration counter and keeps the members of its candidate group; a halo  *)
(* that _unbind was called on has run at least one pass.                   *)
(***************************************************************************)
C7_GalaxyUnbindNoOp ==
  /\ [][(obj_type = "galaxy" /\ pc = "unbind") =>
          /\ pc' = "unbound"
          /\ UNCHANGED <<attrs, particle_indexes, particle_data, lists, ngas,
                         nstar, ndm, masses, pos, vel, unbound_indexes,
                         unbind_iterations>>]_vars
  /\ [](obj_type = "galaxy" =>
          /\ "unbound_indexes" \notin attrs
          /\ "unbind_iterations" \notin attrs
          /\ "particle_indexes" \in attrs => particle_indexes = candidate)
  /\ []((obj_type = "halo" /\ pc \in {"unbound", "quantities", "crashed"}) =>
          /\ "unbind_iterations" \in attrs
          /\ unbind_iterations >= 1)

\* a valid galaxy holding a particle that would be unbound has got past
\* _unbind with all its members
C7_Witness ==
  /\ obj_type = "galaxy"
  /\ pc = "unbound"
  /\ particle_indexes = candidate
  /\ 7 \in Range(candidate)
  /\ ~BelowThreshold

(***************************************************************************)
(* C8: a read of a lazy list whose backing value is absent or an integer   *)
(* calls restore for that list and returns the persisted sequence; a read  *)
(* of a list that is in memory returns the value in memory and calls       *)
(* nothing; a list in memory stays in memory through every read and        *)
(* write; so restore is called at most once per list of a structure.       *)
(***************************************************************************)
C8_RestoreAtMostOnce ==
  /\ [](\A n \in ListNames : restore_calls[n] <= 1)
  /\ [][\A n \in ListNames :
          (last_op'.op = "get" /\ last_op'.name = n) =>
            IF lists[n].tag \in {"absent", "int"}
            THEN /\ last_op'.restored
                 /\ restore_calls'[n] = restore_calls[n] + 1
                 /\ last_op'.val = Materialized(persisted[n])
                 /\ lists'[n] = Materialized(persisted[n])
            ELSE /\ ~last_op'.restored
                 /\ restore_calls' = restore_calls
                 /\ last_op'.val = lists[n]
                 /\ lists' = lists]_vars
  /\ [][\A n \in ListNames :
          lists[n].tag = "seq" =>
            /\ lists'[n].tag = "seq"
            /\ restore_calls'[n] = restore_calls[n]]_vars

\* the dmlist of a halo was restored once and a later read of it returned
\* a value written after that
C8_Witness ==
  /\ obj_type = "halo"
  /\ restore_calls["dmlist"] = 1
  /\ last_op = [op |-> "get", name |-> "dmlist", restored |-> FALSE,
                val |-> Materialized(<<7, 9>>)]

(***************************************************************************)
(* C9: a read or a write of one list leaves the backing value and the      *)
(* restore count of every other list as they were; a write calls no        *)
(* restore and makes the written sequence the value in memory; and the     *)
(* read that follows a write of the same list returns the written value.   *)
(***************************************************************************)
C9_ListsIndependent ==
  /\ [][\A n \in ListNames :
          last_op'.name = n =>
            \A m \in ListNames \ {n} :
              /\ lists'[m] = lists[m]
              /\ restore_calls'[m] = restore_calls[m]]_vars
  /\ [][last_op'.op = "set" =>
          /\ restore_calls' = restore_calls
          /\ ~last_op'.restored
          /\ last_op'.val.tag = "seq"
          /\ lists'[last_op'.name] = last_op'.val]_vars
  /\ [][(last_op.op = "set" /\ last_op'.op = "get"
           /\ last_op'.name = last_op.name) =>
          /\ last_op'.val = last_op.val
          /\ ~last_op'.restored]_vars

\* glist was written and read back while slist is still an integer and
\* dmlist still absent
C9_Witness ==
  /\ last_op = [op |-> "get", name |-> "glist", restored |-> FALSE,
                val |-> Materialized(<<7, 9>>)]
  /\ lists["slist"] = IntValue
  /\ lists["dmlist"] = Absent
  /\ restore_calls = [n \in ListNames |-> 0]

(***************************************************************************)
(* C10.  The members a structure has kept: the rows of its candidate       *)
(* group whose global index is not in the ledger.                          *)
(***************************************************************************)
Unbound == UNION {Range(unbound_indexes[t]) : t \in LedgerKeys}

Retained == SelectSeq(candidate, LAMBDA r : pdata.indexes[r] \notin Unbound)

\* the mass of the kept members that are neither gas, star nor dm
OtherMass ==
  SumColumn(Retained,
            [r \in Rows |-> IF pdata.ptype[r] \in LedgerKeys THEN 0
                            ELSE pdata.mass[r]])

\* C10 as stated: after Finalized the entries dm, gas, stellar and baryon
\* of the mass breakdown sum to the entry total
C10_AllSpeciesSumToTotal ==
  (pc = "done" /\ masses.dm # NoEntry) =>
    masses.dm + masses.gas + masses.stellar + masses.baryon = masses.total

(***************************************************************************)
(* C10 as amended: for a structure that ends valid, baryon is gas plus     *)
(* stellar, total is the mass of all kept members, and dm + gas + stellar  *)
(* is total less the mass of the kept members of any other species.       *)
(***************************************************************************)
C10_MassBreakdown ==
  masses.dm # NoEntry =>
    /\ masses.baryon = masses.gas + masses.stellar
    /\ masses.total = SumColumn(Retained, pdata.mass)
    /\ masses.dm + masses.gas + masses.stellar + OtherMass = masses.total

\* a halo with gas, a star and a black hole among its kept members has
\* returned with its mass breakdown
C10_Witness ==
  /\ pc = "done"
  /\ masses.dm # NoEntry
  /\ masses.gas > 0
  /\ masses.stellar > 0
  /\ OtherMass > 0

(***************************************************************************)
(* C11.  SpeciesOf names the species of each list; GlobalOf(rows, t) is    *)
(* the global indices of the rows of species t, in the order of rows.      *)
(***************************************************************************)
SpeciesOf ==
  [glist |-> ptype_ints.gas, slist |-> ptype_ints.star,
   dmlist |-> ptype_ints.dm]

GlobalOf(rows, t) ==
  LET of_t == SelectSeq(rows, LAMBDA r : pdata.ptype[r] = t)
  IN  [k \in 1..Len(of_t) |-> pdata.indexes[of_t[k]]]

\* the structure ended valid and its lists have been made global
FinalizedValid ==
  /\ pc \in {"cleanup", "done"}
  /\ "virial_quantities" \in attrs

(***************************************************************************)
(* C11: for a structure that ends valid, once the lists are global each    *)
(* list holds exactly the global indices of the retained members of its    *)
(* species, in the order of the local list it replaced (entry k is the     *)
(* global index of the row at local entry k), and none of them is in the   *)
(* unbound ledger.                                                         *)
(***************************************************************************)
C11_GlobalListsOfRetained ==
  /\ [](FinalizedValid =>
          \A n \in ListNames :
            /\ lists[n] = Materialized(GlobalOf(Retained, SpeciesOf[n]))
            /\ Range(lists[n].val) \cap Unbound = {})
  /\ [][(pc = "quantities" /\ pc' = "cleanup") =>
          \A n \in ListNames :
            /\ Len(lists'[n].val) = Len(lists[n].val)
            /\ \A k \in 1..Len(lists[n].val) :
                 lists'[n].val[k] =
                   pdata.indexes[particle_data[lists[n].val[k] + 1]]]_vars

\* a halo that lost members to the ledger has returned valid with gas,
\* star and dm members in its global lists
C11_Witness ==
  /\ pc = "done"
  /\ obj_type = "halo"
  /\ "virial_quantities" \in attrs
  /\ Unbound # {}
  /\ lists["glist"].val # <<>>
  /\ lists["slist"].val # <<>>
  /\ Len(lists["dmlist"].val) >= MINIMUM_DM_PER_HALO

(***************************************************************************)
(* C12: drive called with a single integer n for snapnums builds, on       *)
(* every rank, the list snaps of exactly one Snapshot per snapshot         *)
(* directory, each with the number n, and goes on to process them.         *)
(***************************************************************************)
C12_SingleIntegerAccepted ==
  \A r \in DOMAIN ranks :
    (args.snapnums.tag = "int" /\ ranks[r].pc # "start") =>
      LET dirs == normalize_snapdirs(args.snapdirs)
      IN  /\ ranks[r].pc # "crashed"
          /\ ranks[r].snaps =
               [k \in 1..Len(dirs) |->
                  [dir |-> dirs[k], num |-> args.snapnums.int]]

(***************************************************************************)
(* C13.  RunsSearch(snap): the snapshot file exists and not (the output    *)
(* file exists and skipran).                                               *)
(***************************************************************************)
RunsSearch(snap) ==
  snap \in snapfiles /\ ~(snap \in outfiles /\ args.skipran)

(***************************************************************************)
(* C13: a call of Snapshot.member_search by a rank searches and saves the  *)
(* output file if and only if the snapshot file exists and not (the output *)
(* file exists and skipran is true); otherwise it searches and saves       *)
(* nothing; either way the rank goes on to its next snapshot, so that a    *)
(* rank that has left the member searches has called member_search for     *)
(* every snapshot of its slice.                                            *)
(***************************************************************************)
C13_SearchIffPresentAndNotSkipped ==
  /\ [][\A r \in DOMAIN ranks :
          (ranks[r].pc = "search" /\ ranks'[r] # ranks[r]) =>
            LET snap == ranks[r].rank_snaps[ranks[r].done + 1]
                this == [rank |-> r, snap |-> snap]
            IN  /\ RunsSearch(snap) =>
                     /\ this \notin search_log
                     /\ search_log' = search_log \cup {this}
                     /\ outfiles' = outfiles \cup {snap}
                /\ ~RunsSearch(snap) =>
                     /\ search_log' = search_log
                     /\ outfiles' = outfiles
                /\ ranks'[r].done = ranks[r].done + 1
                /\ ranks'[r].pc # "crashed"
                /\ ranks'[r].done < Len(ranks[r].rank_snaps)
                     => ranks'[r].pc = "search"
                /\ ranks'[r].done = Len(ranks[r].rank_snaps)
                     => ranks'[r].pc = after_search(args, mpi)]_vars
  /\ [](\A r \in DOMAIN ranks :
          (args.member_search
             /\ ranks[r].pc \in {"barrier", "verify", "progen", "done"}) =>
            /\ ranks[r].rank_snaps = Slice(ranks[r].snaps, r, mpi.nprocs)
            /\ \A k \in 1..Len(ranks[r].rank_snaps) :
                 LET snap == ranks[r].rank_snaps[k]
                 IN  /\ snap \in snapfiles => snap \in outfiles
                     /\ [rank |-> r, snap |-> snap] \in search_log
                          => snap \in snapfiles)

\* a rank is through a slice of four snapshots: one whose file is missing,
\* one skipped because its output file was there, and two searched
C13_Witness ==
  \E r \in DOMAIN ranks :
    /\ ranks[r].pc = "done"
    /\ args.skipran
    /\ Len(ranks[r].rank_snaps) = 4
    /\ \E k \in 1..4 : ranks[r].rank_snaps[k] \notin snapfiles
    /\ \E k \in 1..4 :
         /\ ranks[r].rank_snaps[k] \in outfiles
         /\ [rank |-> r, snap |-> ranks[r].rank_snaps[k]] \notin search_log
    /\ Cardinality(search_log) = 2

(***************************************************************************)
(* C14.  The lists hold local positions from the initial assignment until  *)
(* _assign_global_plists.                                                  *)
(***************************************************************************)
ListsAreLocal == pc \in {"assigned", "unbind", "unbound", "quantities"}

\* C14: while the lists hold local positions, glist, slist and dmlist are
\* pairwise disjoint and every position 0..len(particle_indexes)-1 is in
\* exactly one of them, whatever species tags the table holds
C14_ListsPartitionMembers ==
  ListsAreLocal =>
    /\ \A n, m \in ListNames :
         n # m => Range(lists[n].val) \cap Range(lists[m].val) = {}
    /\ UNION {Range(lists[n].val) : n \in ListNames}
         = 0..(Len(particle_indexes) - 1)

(***************************************************************************)
(* C15: whenever particle_data and particle_indexes both exist,            *)
(* particle_data has as many rows as particle_indexes has entries and its  *)
(* row k is the table row particle_indexes[k]; and the counters ngas,      *)
(* nstar and ndm, once assigned, are the lengths of the lists.             *)
(***************************************************************************)
C15_DataMatchesIndexes ==
  /\ {"particle_data", "particle_indexes"} \subseteq attrs =>
       /\ Len(particle_data) = Len(particle_indexes)
       /\ \A k \in 1..Len(particle_data) :
            particle_data[k] = particle_indexes[k]
  /\ ndm # NoEntry =>
       /\ ngas = Len(lists["glist"].val)
       /\ nstar = Len(lists["slist"].val)
       /\ ndm = Len(lists["dmlist"].val)

(***************************************************************************)
(* C16.  The total mass and the centre of mass of a list of table rows,    *)
(* and whether the stored ones are those of the current members.           *)
(***************************************************************************)
WeightedSum(rows, q, i) ==
  SumColumn(rows, [r \in Rows |-> pdata.mass[r] * q[r][i]])

StoredIsOf(m, c, cv, rows) ==
  /\ m.total = SumColumn(rows, pdata.mass)
  /\ c.den = m.total
  /\ cv.den = m.total
  /\ \A i \in 1..3 :
       /\ c.num[i] = WeightedSum(rows, pdata.pos, i)
       /\ cv.num[i] = WeightedSum(rows, pdata.vel, i)

\* C16 as stated: after any pass that removes particles the stored total
\* mass, position and velocity are those of the members that remain, also
\* when the pass leaves the structure invalid
C16_RecomputedAfterEveryRemoval ==
  [][(AtPass /\ particle_indexes' # particle_indexes /\ pc' # "crashed") =>
       StoredIsOf(masses', pos', vel', particle_indexes')]_vars

(***************************************************************************)
(* C16 as amended: at the start of every pass the stored total mass,       *)
(* position and velocity are those of the current members; a pass that     *)
(* removes particles and leaves the structure valid stores those of the    *)
(* members that remain; a pass that removes particles and leaves the       *)
(* structure invalid, or is ended by an exception, leaves the three as     *)
(* they were before it, those of the members before the removal.           *)
(***************************************************************************)
C16_RecomputedWhileValid ==
  /\ [](pc = "unbind" => StoredIsOf(masses, pos, vel, particle_indexes))
  /\ [][(AtPass /\ particle_indexes' # particle_indexes) =>
          IF pc' = "unbind"
          THEN StoredIsOf(masses', pos', vel', particle_indexes')
          ELSE /\ <<masses', pos', vel'>> = <<masses, pos, vel>>
               /\ ~StoredIsOf(masses', pos', vel', particle_indexes')]_vars

\* a halo is about to run its second pass: the first removed particles,
\* the particle of mass 2 is among those that remain, and what is stored
\* is of the shrunken set
C16_Witness ==
  /\ pc = "unbind"
  /\ unbind_iterations = 1
  /\ Len(particle_indexes) < Len(candidate)
  /\ 29 \in Range(particle_indexes)
  /\ masses.total = SumColumn(particle_indexes, pdata.mass)
  /\ masses.total < SumColumn(candidate, pdata.mass)

(***************************************************************************)
(* C17.  What the passes do to a list of member rows, computed from the    *)
(* rows alone: the positions with energy > 0 against the rows' own total   *)
(* mass and centre of mass, the rows left by one pass, and the number of   *)
(* removing passes until a pass removes nothing or leaves a halo invalid.  *)
(***************************************************************************)
PositiveOf(rows) ==
  LET mtot == total_mass(rows)
  IN  positive_indexes(rows, center_of_mass(rows, pdata.pos, mtot),
                       center_of_mass(rows, pdata.vel, mtot), mtot)

AfterPass(rows) == WithoutPositions(rows, Range(PositiveOf(rows)))

HaloValid(rows) == CountOf(rows, ptype_ints.dm) >= MINIMUM_DM_PER_HALO

RECURSIVE RemovingPasses(_)
RemovingPasses(rows) ==
  IF PositiveOf(rows) = <<>> THEN 0
  ELSE IF ~HaloValid(AfterPass(rows)) THEN 1
  ELSE 1 + RemovingPasses(AfterPass(rows))

\* the halo has returned from _process_group valid
HaloConverged ==
  /\ pc = "done"
  /\ obj_type = "halo"
  /\ "virial_quantities" \in attrs

(***************************************************************************)
(* C17: unbind_iterations counts the passes: every pass adds one to it     *)
(* and nothing else changes it.  A halo that ends valid after k removing   *)
(* passes has unbind_iterations = k + 1; with no member of positive        *)
(* energy it has unbind_iterations = 1, an empty ledger and all its        *)
(* members; with exactly one member of positive energy in pass 1 and none  *)
(* in pass 2 it has unbind_iterations = 2 and a ledger that holds the      *)
(* global index of that member, under its species, and nothing else.       *)
(***************************************************************************)
C17_IterationsCountPasses ==
  /\ [][IF AtPass THEN unbind_iterations' = unbind_iterations + 1
        ELSE unbind_iterations' = unbind_iterations]_vars
  /\ [](HaloConverged =>
          /\ unbind_iterations = RemovingPasses(candidate) + 1
          /\ PositiveOf(candidate) = <<>> =>
               /\ unbind_iterations = 1
               /\ unbound_indexes = EmptyLedger
               /\ Retained = candidate
               /\ ngas + nstar + ndm + CountOf(candidate, PTYPE_BH)
                    = Len(candidate)
          /\ (Len(PositiveOf(candidate)) = 1
                /\ PositiveOf(AfterPass(candidate)) = <<>>) =>
               LET row == candidate[PositiveOf(candidate)[1] + 1]
               IN  /\ unbind_iterations = 2
                   /\ unbound_indexes =
                        [EmptyLedger EXCEPT
                           ![pdata.ptype[row]] = <<pdata.indexes[row]>>]
                   /\ Retained = AfterPass(candidate))

\* a halo has returned valid after two passes, the first of which removed
\* one dark-matter particle
C17_Witness ==
  /\ HaloConverged
  /\ unbind_iterations = 2
  /\ Len(unbound_indexes[ptype_ints.dm]) = 1
  /\ unbound_indexes[ptype_ints.gas] = <<>>
  /\ unbound_indexes[ptype_ints.star] = <<>>
  /\ Len(PositiveOf(candidate)) = 1

(***************************************************************************)
(* C18: when a halo has returned valid, no retained member has positive    *)
(* energy against the final total mass and centre of mass, which are the   *)
(* ones stored; so the pipeline run again on exactly the retained members  *)
(* finds them valid, removes nothing in its first pass, and has the same   *)
(* members, total mass and centre of mass as the first run ended with.     *)
(***************************************************************************)
C18_ConvergedIsFixedPoint ==
  HaloConverged =>
    /\ StoredIsOf(masses, pos, vel, Retained)
    /\ \A k \in 1..Len(Retained) :
         ~EnergyPositive(Retained[k], pos, vel, masses.total)
    /\ HaloValid(Retained)
    /\ PositiveOf(Retained) = <<>>
    /\ AfterPass(Retained) = Retained
    /\ RemovingPasses(Retained) = 0
    /\ \A n \in ListNames :
         lists[n].val = GlobalOf(AfterPass(Retained), SpeciesOf[n])

\* a halo has returned valid after losing members in two removing passes
C18_Witness ==
  /\ HaloConverged
  /\ unbind_iterations = 3
  /\ Len(Retained) < Len(candidate)
  /\ PositiveOf(candidate) # <<>>
  /\ PositiveOf(Retained) = <<>>

(***************************************************************************)
(* C19.  The local positions, in rows, of the rows of species t; and       *)
(* whether the retained members meet the threshold of the kind.            *)
(***************************************************************************)
LocalOf(rows, t) ==
  SetToSeqAsc({k - 1 : k \in {j \in 1..Len(rows) : pdata.ptype[rows[j]] = t}})

RetainedMeetThreshold ==
  CountOf(Retained, DefiningSpecies) >= Minimum(obj_type)

\* C19 as stated: once _process_group has returned, the lists of every
\* structure, abandoned or not, hold global particle indices
C19_ListsGlobalAfterProcessing ==
  pc = "done" =>
    \A n \in ListNames :
      lists[n] = Materialized(GlobalOf(Retained, SpeciesOf[n]))

(***************************************************************************)
(* C19 as amended: once _process_group has returned, the lists of a        *)
(* structure that ended valid hold the global indices of its retained      *)
(* members; the lists of a structure abandoned as invalid, at the initial  *)
(* assignment or after an unbinding pass, still hold the local row         *)
(* positions of its last assignment, into a particle_data that is gone.    *)
(***************************************************************************)
C19_ListsGlobalIffValid ==
  pc = "done" =>
    /\ "particle_data" \notin attrs
    /\ \A n \in ListNames :
         lists[n] =
           IF RetainedMeetThreshold
           THEN Materialized(GlobalOf(Retained, SpeciesOf[n]))
           ELSE Materialized(LocalOf(Retained, SpeciesOf[n]))

\* a halo abandoned after an unbinding pass has returned with a dmlist of
\* local positions
C19_Witness ==
  /\ pc = "done"
  /\ obj_type = "halo"
  /\ Unbound # {}
  /\ ~RetainedMeetThreshold
  /\ lists["dmlist"].val = LocalOf(Retained, ptype_ints.dm)
  /\ lists["dmlist"].val # GlobalOf(Retained, ptype_ints.dm)

(***************************************************************************)
(* C20.  The global indices of a list of table rows.                       *)
(***************************************************************************)
GlobalsOf(rows) == {pdata.indexes[rows[k]] : k \in 1..Len(rows)}

\* the table row of a global index
RowOf(g) == CHOOSE r \in Rows : pdata.indexes[r] = g

(***************************************************************************)
(* C20: while particle_indexes exists, after any number of passes, the     *)
(* global indices of the current members and those in the ledger are       *)
(* disjoint, neither holds a duplicate, together they are exactly the      *)
(* global indices of the candidate group, and every entry of the ledger    *)
(* is under the species of its particle.                                   *)
(***************************************************************************)
C20_ParticlesConserved ==
  "particle_indexes" \in attrs =>
    /\ GlobalsOf(particle_indexes) \cap Unbound = {}
    /\ Cardinality(GlobalsOf(particle_indexes)) = Len(particle_indexes)
    /\ Cardinality(Unbound) = LedgerSize(unbound_indexes)
    /\ GlobalsOf(particle_indexes) \cup Unbound = GlobalsOf(candidate)
    /\ Len(particle_indexes) + LedgerSize(unbound_indexes) = Len(candidate)
    /\ \A t \in LedgerKeys :
         \A k \in 1..Len(unbound_indexes[t]) :
           pdata.ptype[RowOf(unbound_indexes[t][k])] = t

\* after two removing passes the ledger of a halo holds a gas particle
\* and dark-matter particles
C20_Witness ==
  /\ pc = "unbind"
  /\ unbind_iterations = 2
  /\ unbound_indexes[ptype_ints.gas] # <<>>
  /\ unbound_indexes[ptype_ints.dm] # <<>>
  /\ Len(particle_indexes) + 2 <= Len(candidate)

(***************************************************************************)
(* C21.  The parts of the claim, for a run of drive on mpi.nprocs ranks.   *)
(***************************************************************************)
\* the rank has built snaps and not ended by an exception
RankRuns(r) == ranks[r].pc \notin {"start", "crashed"}

\* the rank is in, or through, the progenitor phase
InProgenPhase(r) ==
  /\ args.progen
  /\ ranks[r].pc \in {"verify", "progen", "done"}

\* the rank has its progenitor pairs
HasPairs(r) ==
  /\ args.progen
  /\ ranks[r].pc \in {"progen", "done"}

\* every snapshot is in the member-search slice of exactly one rank, and
\* no snapshot is searched by two ranks
SearchPartition ==
  /\ (args.member_search /\ \A r \in DOMAIN ranks : RankRuns(r)) =>
       \A q \in DOMAIN ranks :
         \A k \in 1..Len(ranks[q].snaps) :
           Cardinality({r \in DOMAIN ranks :
                          ranks[q].snaps[k] \in Range(ranks[r].rank_snaps)}) = 1
  /\ \A x, y \in search_log : x.snap = y.snap => x.rank = y.rank

\* every progenitor pair is in the slice of exactly one rank, the ranks
\* agree on the pairs, and no pair is handled by two ranks
PairPartition ==
  /\ \A q, r \in DOMAIN ranks :
       (HasPairs(q) /\ HasPairs(r)) =>
         ranks[q].progen_pairs = ranks[r].progen_pairs
  /\ (\A r \in DOMAIN ranks : HasPairs(r)) =>
       \A q \in DOMAIN ranks :
         \A k \in 1..Len(ranks[q].progen_pairs) :
           Cardinality({r \in DOMAIN ranks :
                          ranks[q].progen_pairs[k]
                            \in Range(ranks[r].rank_progen_pairs)}) = 1
  /\ \A x, y \in progen_log :
       (x.current = y.current /\ x.progens = y.progens) => x.rank = y.rank
  /\ (\A r \in DOMAIN ranks : ranks[r].pc = "done" /\ args.progen) =>
       \A q \in DOMAIN ranks :
         \A k \in 1..Len(ranks[q].progen_pairs) :
           \E x \in progen_log :
             <<x.current, x.progens>> = ranks[q].progen_pairs[k]

\* the pairs are the consecutive verified snapshots, from last to first,
\* and the verified snapshots are the ones whose output file exists
PairsAreConsecutive ==
  \A r \in DOMAIN ranks :
    HasPairs(r) =>
      LET v == ranks[r].verified_snaps
      IN  /\ v = SelectSeq(ranks[r].snaps, LAMBDA x : x \in outfiles)
          /\ ranks[r].missing_snaps =
               SelectSeq(ranks[r].snaps, LAMBDA x : x \notin outfiles)
          /\ Len(ranks[r].progen_pairs) = IF Len(v) = 0 THEN 0 ELSE Len(v) - 1
          /\ \A k \in 1..Len(ranks[r].progen_pairs) :
               ranks[r].progen_pairs[k] = <<v[Len(v) - k + 1], v[Len(v) - k]>>

\* a rank that has built snaps never ends by an exception, whichever
\* snapshot files and output files are missing
MissingNeverStopsTheRun ==
  \A r \in DOMAIN ranks :
    (ranks[r].snaps # <<>> \/ args.snapnums.tag = "list")
      => ranks[r].pc # "crashed"

\* under MPI no rank is in the progenitor phase while a rank has member
\* searches left
BarrierHolds ==
  (mpi.using_mpi /\ \E r \in DOMAIN ranks : InProgenPhase(r)) =>
    \A q \in DOMAIN ranks : ranks[q].pc \notin {"start", "search"}

\* C21: the slices give every snapshot to exactly one rank for the member
\* search and every progenitor pair to exactly one rank; the pairs are the
\* consecutive verified snapshots from last to first; a snapshot whose
\* file or output file is missing is left out without stopping the run;
\* and under MPI the progenitor phase starts after all member searches
C21_RanksPartitionTheWork ==
  /\ SearchPartition
  /\ PairPartition
  /\ PairsAreConsecutive
  /\ MissingNeverStopsTheRun
  /\ BarrierHolds

====
